---- MODULE Spec2Model ----
(***************************************************************************)
(* Personal expense tracker (src/p1.py): a menu loop over one CSV file,    *)
(* expenses.csv, and the report files expense_report_<month>.txt.          *)
(*                                                                         *)
(* Text is modelled as a sequence of one-character strings, a file as the  *)
(* exact sequence of characters it holds.  Amounts are the integer-valued  *)
(* floats, for which float addition and str()/float() are exact.           *)
(***************************************************************************)
EXTENDS Integers, Sequences, FiniteSets, TLC

VARIABLES
    file,      \* expenses.csv: Absent, or File(its characters)
    reports,   \* month |-> the file expense_report_<month>.txt
    pc,        \* "start" (before initialize_file), "loop" (top of the menu
               \* loop), "choose" (menu printed, reading the choice),
               \* "exited", "crashed"
    op,        \* the last menu operation: the choice typed and the inputs read
    out,       \* what the last operation printed
    file0,     \* history: content of expenses.csv before the first startup
    written,   \* history: the rows add_expense wrote, in order
    restarted  \* history: main() has been started more than once

vars == <<file, reports, pc, op, out, file0, written, restarted>>

\* a file: whether it exists, and the characters it holds
Absent     == [exists |-> FALSE, text |-> <<>>]
File(text) == [exists |-> TRUE, text |-> text]

(***************************************************************************)
(* Bounds of the model.                                                    *)
(***************************************************************************)
MaxAdds == 2

(***************************************************************************)
(* Text constants.                                                         *)
(***************************************************************************)
COMMA == ","
QUOTE == "\""
CR    == "\r"
LF    == "\n"

DATE        == <<"d","a","t","e">>
CATEGORY    == <<"c","a","t","e","g","o","r","y">>
AMOUNT      == <<"a","m","o","u","n","t">>
DESCRIPTION == <<"d","e","s","c","r","i","p","t","i","o","n">>

HeaderRow == <<DATE, CATEGORY, AMOUNT, DESCRIPTION>>

Min(a, b) == IF a <= b THEN a ELSE b

\* row["date"][:7]
MonthLen == 7

(***************************************************************************)
(* float(text) and str(float), on the integer-valued floats.               *)
(***************************************************************************)
DigitChars == <<"0","1","2","3","4","5","6","7","8","9">>

IsDigit(c) == \E d \in 1..10 : DigitChars[d] = c

DigitVal(c) == (CHOOSE d \in 1..10 : DigitChars[d] = c) - 1

RECURSIVE DigitsValue(_)
DigitsValue(s) ==
    IF s = <<>> THEN 0
    ELSE 10 * DigitsValue(SubSeq(s, 1, Len(s) - 1)) + DigitVal(s[Len(s)])

\* float(text) succeeds: digits with an optional "." (at least one digit in
\* all); the fraction digits, if any, are zeros.  A text with a non-zero
\* fraction digit denotes a float that is not integer-valued: no input of
\* the model is such a text.
IsNumeric(s) ==
    \E n \in 0..Len(s) :
        /\ \A i \in 1..n : IsDigit(s[i])
        /\ \/ n = Len(s) /\ n >= 1
           \/ /\ n < Len(s)
              /\ s[n + 1] = "."
              /\ \A i \in (n + 2)..Len(s) : s[i] = "0"
              /\ n >= 1 \/ Len(s) >= n + 2

IntPart(s) ==
    LET n == CHOOSE k \in 0..Len(s) :
                 /\ \A i \in 1..k : IsDigit(s[i])
                 /\ k = Len(s) \/ ~IsDigit(s[k + 1])
    IN  SubSeq(s, 1, n)

ParseFloat(s) == DigitsValue(IntPart(s))

RECURSIVE NatDigits(_)
NatDigits(n) ==
    IF n < 10 THEN <<DigitChars[n + 1]>>
    ELSE NatDigits(n \div 10) \o <<DigitChars[(n % 10) + 1]>>

\* str(float): 2.0 is written "2.0"
FormatFloat(n) == NatDigits(n) \o <<".", "0">>

(***************************************************************************)
(* csv.writer(file).writerow(fields), excel dialect.                       *)
(***************************************************************************)
NeedsQuote(s) == \E i \in 1..Len(s) : s[i] \in {COMMA, QUOTE, CR, LF}

RECURSIVE DoubleQuotes(_)
DoubleQuotes(s) ==
    IF s = <<>> THEN <<>>
    ELSE (IF s[1] = QUOTE THEN <<QUOTE, QUOTE>> ELSE <<s[1]>>)
         \o DoubleQuotes(Tail(s))

QuoteField(s) ==
    IF NeedsQuote(s) THEN <<QUOTE>> \o DoubleQuotes(s) \o <<QUOTE>> ELSE s

RECURSIVE JoinFields(_)
JoinFields(fields) ==
    IF Len(fields) = 1 THEN QuoteField(fields[1])
    ELSE QuoteField(fields[1]) \o <<COMMA>> \o JoinFields(Tail(fields))

WriteRow(fields) == JoinFields(fields) \o <<CR, LF>>

(***************************************************************************)
(* open(FILE_PATH, "r"): universal newlines, "\r\n" and "\r" read as "\n". *)
(* NewlineChar is the character read at position i, NewlineNext the        *)
(* position of the character read after it.                                *)
(***************************************************************************)
NewlineChar(s, i) == IF s[i] = CR THEN LF ELSE s[i]

NewlineNext(s, i) ==
    IF s[i] = CR /\ i < Len(s) /\ s[i + 1] = LF THEN i + 2 ELSE i + 1

(***************************************************************************)
(* csv.reader over the lines of the file, excel dialect, not strict.       *)
(***************************************************************************)
IsNewline(c) == c \in {CR, LF}

\* where the unquoted text starting at i ends: at the next delimiter or
\* newline, or past the end of the file
FieldEnd(s, i) ==
    LET ends == {k \in i..Len(s) : s[k] = COMMA \/ IsNewline(s[k])}
    IN  IF ends = {} THEN Len(s) + 1
        ELSE CHOOSE k \in ends : \A e \in ends : k <= e

\* inside a quoted field from position k on: a doubled quote is a quote, a
\* newline is part of the field, a single quote closes the field
RECURSIVE ScanQuoted(_, _, _)
ScanQuoted(s, k, acc) ==
    IF k > Len(s) THEN [val |-> acc, next |-> k]
    ELSE IF s[k] = QUOTE
         THEN IF k < Len(s) /\ s[k + 1] = QUOTE
              THEN ScanQuoted(s, k + 2, Append(acc, QUOTE))
              ELSE [val |-> acc, next |-> k + 1]
         ELSE ScanQuoted(s, NewlineNext(s, k), Append(acc, NewlineChar(s, k)))

\* the field starting at i, and the position of the character that ends it;
\* what follows a closing quote up to the next delimiter is kept as it is
ReadField(s, i) ==
    IF s[i] = QUOTE
    THEN LET q == ScanQuoted(s, i + 1, <<>>)
             e == FieldEnd(s, q.next)
         IN  [val |-> q.val \o SubSeq(s, q.next, e - 1), next |-> e]
    ELSE LET e == FieldEnd(s, i)
         IN  [val |-> SubSeq(s, i, e - 1), next |-> e]

\* the rows (a blank line is the row <<>>), and whether the text ends inside
\* a row: its last line is unterminated, or a quoted field is left open.
\* st is "start_record" at the start of a line, "start_field" after a
\* delimiter.
RECURSIVE ReadRows(_, _, _, _, _)
ReadRows(s, i, st, row, rows) ==
    IF i > Len(s)
    THEN IF st = "start_record" THEN [rows |-> rows, open |-> FALSE]
         ELSE [rows |-> Append(rows, Append(row, <<>>)), open |-> TRUE]
    ELSE IF st = "start_record" /\ IsNewline(s[i])
    THEN ReadRows(s, NewlineNext(s, i), "start_record", <<>>, Append(rows, <<>>))
    ELSE LET f == ReadField(s, i)
         IN  IF f.next > Len(s)
             THEN [rows |-> Append(rows, Append(row, f.val)), open |-> TRUE]
             ELSE IF s[f.next] = COMMA
             THEN ReadRows(s, f.next + 1, "start_field", Append(row, f.val), rows)
             ELSE ReadRows(s, NewlineNext(s, f.next), "start_record", <<>>,
                           Append(rows, Append(row, f.val)))

ReadText(content) ==
    ReadRows(content, 1, "start_record", <<>>, <<>>)

CsvReader(content) == ReadText(content).rows

EndsInsideRow(content) == ReadText(content).open

(***************************************************************************)
(* csv.DictReader: the first row gives the field names, blank rows are     *)
(* skipped, a short row has None for its missing fields, the extra fields  *)
(* of a long row go under the key None.                                    *)
(***************************************************************************)
FieldNames(content) ==
    LET rows == CsvReader(content) IN IF rows = <<>> THEN <<>> ELSE rows[1]

DictReader(content) ==
    LET rows == CsvReader(content)
    IN  IF rows = <<>> THEN <<>>
        ELSE SelectSeq(Tail(rows), LAMBDA r : r # <<>>)

Str(s)   == [kind |-> "str", val |-> s]
None     == [kind |-> "None", val |-> <<>>]
KeyError == [kind |-> "KeyError", val |-> <<>>]

\* row[key] for a row built by DictReader from the field names fn
Lookup(fn, row, key) ==
    LET lf == Len(fn)
        lr == Len(row)
        at == {i \in 1..Min(lf, lr) : fn[i] = key}
    IN  IF \E i \in (lr + 1)..lf : fn[i] = key THEN None
        ELSE IF at # {} THEN Str(row[CHOOSE i \in at : \A j \in at : j <= i])
        ELSE KeyError

\* float(v): the exception it raises, or "ok"
FloatError(v) ==
    IF v.kind = "KeyError" THEN "KeyError"
    ELSE IF v.kind = "None" THEN "TypeError"
    ELSE IF IsNumeric(v.val) THEN "ok"
    ELSE "ValueError"

StartsWith(s, prefix) ==
    /\ Len(prefix) <= Len(s)
    /\ SubSeq(s, 1, Len(prefix)) = prefix

\* a variant that stores the amount instead of adding it
RECURSIVE Accumulate_overwrite(_, _, _)
Accumulate_overwrite(d, key, amount) ==
    IF d = <<>> THEN << <<key, amount>> >>
    ELSE IF d[1][1] = key THEN << <<key, amount>> >> \o Tail(d)
    ELSE <<d[1]>> \o Accumulate_overwrite(Tail(d), key, amount)

\* d[key] = d.get(key, 0) + amount on a dict kept in insertion order
RECURSIVE Accumulate(_, _, _)
Accumulate(d, key, amount) ==
    IF d = <<>> THEN << <<key, 0 + amount>> >>
    ELSE IF d[1][1] = key THEN << <<key, d[1][2] + amount>> >> \o Tail(d)
    ELSE <<d[1]>> \o Accumulate(Tail(d), key, amount)

Raised(e) == [err |-> e, total |-> <<>>, spent |-> 0]
Done(d)   == [err |-> "ok", total |-> d, spent |-> 0]

\* the loop of analyze_expense and of category_pie_chart
RECURSIVE CategoryLoop(_, _, _)
CategoryLoop(fn, rows, category_total) ==
    IF rows = <<>> THEN Done(category_total)
    ELSE LET category == Lookup(fn, rows[1], CATEGORY)
             amount   == Lookup(fn, rows[1], AMOUNT)
         IN  IF category.kind = "KeyError" THEN Raised("KeyError")
             ELSE IF FloatError(amount) # "ok" THEN Raised(FloatError(amount))
             ELSE CategoryLoop(fn, Tail(rows),
                      Accumulate(category_total, category, ParseFloat(amount.val)))

\* the loop of monthly_bar_chart
RECURSIVE MonthLoop(_, _, _)
MonthLoop(fn, rows, monthly_total) ==
    IF rows = <<>> THEN Done(monthly_total)
    ELSE LET date   == Lookup(fn, rows[1], DATE)
             amount == Lookup(fn, rows[1], AMOUNT)
         IN  IF date.kind = "KeyError" THEN Raised("KeyError")
             ELSE IF date.kind = "None" THEN Raised("TypeError")
             ELSE IF FloatError(amount) # "ok" THEN Raised(FloatError(amount))
             ELSE MonthLoop(fn, Tail(rows),
                      Accumulate(monthly_total,
                                 Str(SubSeq(date.val, 1, Min(MonthLen, Len(date.val)))),
                                 ParseFloat(amount.val)))

\* the loop of budget_alert
RECURSIVE BudgetLoop(_, _, _, _)
BudgetLoop(fn, rows, month, total_spent) ==
    IF rows = <<>> THEN [err |-> "ok", total |-> <<>>, spent |-> total_spent]
    ELSE LET date   == Lookup(fn, rows[1], DATE)
             amount == Lookup(fn, rows[1], AMOUNT)
         IN  IF date.kind = "KeyError" THEN Raised("KeyError")
             ELSE IF date.kind = "None" THEN Raised("AttributeError")
             ELSE IF ~StartsWith(date.val, month)
                  THEN BudgetLoop(fn, Tail(rows), month, total_spent)
             ELSE IF FloatError(amount) # "ok" THEN Raised(FloatError(amount))
             ELSE BudgetLoop(fn, Tail(rows), month,
                             total_spent + ParseFloat(amount.val))

\* the loop of export_report
RECURSIVE ExportLoop(_, _, _, _)
ExportLoop(fn, rows, month, category_total) ==
    IF rows = <<>> THEN Done(category_total)
    ELSE LET date     == Lookup(fn, rows[1], DATE)
             category == Lookup(fn, rows[1], CATEGORY)
             amount   == Lookup(fn, rows[1], AMOUNT)
         IN  IF date.kind = "KeyError" THEN Raised("KeyError")
             ELSE IF date.kind = "None" THEN Raised("AttributeError")
             ELSE IF ~StartsWith(date.val, month)
                  THEN ExportLoop(fn, Tail(rows), month, category_total)
             ELSE IF category.kind = "KeyError" THEN Raised("KeyError")
             ELSE IF FloatError(amount) # "ok" THEN Raised(FloatError(amount))
             ELSE ExportLoop(fn, Tail(rows), month,
                      Accumulate(category_total, category, ParseFloat(amount.val)))

(***************************************************************************)
(* The operations.  Each returns what it printed (msg, and the totals it   *)
(* computed), the exception that left it (err, "ok" if none) and the files *)
(* it wrote.                                                               *)
(***************************************************************************)
NoReport  == [exists |-> FALSE, title |-> <<>>, lines |-> <<>>]

Printed(m, r) == [msg |-> m, err |-> r.err, total |-> r.total, spent |-> r.spent]

Traceback(r) == Printed("Traceback", r)

Quiet == Printed("", Done(<<>>))

\* a variant that creates the file without the header
initialize_file_no_header(f) ==
    IF ~f.exists THEN File(<<>>) ELSE f

\* a variant without the existence test: the file is always rewritten
initialize_file_truncates(f) == File(WriteRow(HeaderRow))

initialize_file(f) ==
    IF ~f.exists THEN File(WriteRow(HeaderRow)) ELSE f

\* a variant that writes the row before the amount is converted
add_expense_writes_first(f, date, category, amountText, description) ==
    IF ~IsNumeric(amountText)
    THEN [file |-> File(f.text \o WriteRow(<<date, category, amountText, <<>>>>)),
          out  |-> Printed("Amount must be a number", Done(<<>>)),
          in   |-> <<date, category, amountText>>]
    ELSE LET amount == ParseFloat(amountText)
             row    == <<date, category, FormatFloat(amount), description>>
         IN  [file |-> File(f.text \o WriteRow(row)),
              out  |-> Printed("Expense saved successfully", Done(<<>>)),
              in   |-> <<date, category, amountText, description>>]

add_expense(f, date, category, amountText, description) ==
    IF ~IsNumeric(amountText)
    THEN [file |-> f, out |-> Printed("Amount must be a number", Done(<<>>)),
          in |-> <<date, category, amountText>>]
    ELSE LET amount == ParseFloat(amountText)
             row    == <<date, category, FormatFloat(amount), description>>
         IN  [file |-> File(f.text \o WriteRow(row)),
              out  |-> Printed("Expense saved successfully", Done(<<>>)),
              in   |-> <<date, category, amountText, description>>]

analyze_expense(f) ==
    IF ~f.exists THEN Traceback(Raised("FileNotFoundError"))
    ELSE LET r == CategoryLoop(FieldNames(f.text), DictReader(f.text), <<>>)
         IN  IF r.err # "ok" THEN Traceback(r)
             ELSE IF r.total = <<>> THEN Printed("No expenses found", r)
             ELSE Printed("Category-wise Expense Analysis", r)

category_pie_chart(f) ==
    IF ~f.exists THEN Traceback(Raised("FileNotFoundError"))
    ELSE LET r == CategoryLoop(FieldNames(f.text), DictReader(f.text), <<>>)
         IN  IF r.err # "ok" THEN Traceback(r)
             ELSE IF r.total = <<>> THEN Printed("No data available for visualization", r)
             ELSE Printed("Category-wise Expense Distribution", r)

monthly_bar_chart(f) ==
    IF ~f.exists THEN Traceback(Raised("FileNotFoundError"))
    ELSE LET r == MonthLoop(FieldNames(f.text), DictReader(f.text), <<>>)
         IN  IF r.err # "ok" THEN Traceback(r)
             ELSE IF r.total = <<>> THEN Printed("No monthly data found", r)
             ELSE Printed("Monthly Expense Summary", r)

\* a variant that compares with >= instead of >
budget_alert_inclusive(f, month, budgetText) ==
    IF ~IsNumeric(budgetText) THEN Printed("Budget must be a number", Done(<<>>))
    ELSE IF ~f.exists THEN Traceback(Raised("FileNotFoundError"))
    ELSE LET budget == ParseFloat(budgetText)
             r == BudgetLoop(FieldNames(f.text), DictReader(f.text), month, 0)
         IN  IF r.err # "ok" THEN Traceback(r)
             ELSE IF r.spent >= budget
                  THEN Printed("You have exceeded your budget", r)
                  ELSE Printed("You are within your budget", r)

budget_alert(f, month, budgetText) ==
    IF ~IsNumeric(budgetText) THEN Printed("Budget must be a number", Done(<<>>))
    ELSE IF ~f.exists THEN Traceback(Raised("FileNotFoundError"))
    ELSE LET budget == ParseFloat(budgetText)
             r == BudgetLoop(FieldNames(f.text), DictReader(f.text), month, 0)
         IN  IF r.err # "ok" THEN Traceback(r)
             ELSE IF r.spent > budget
                  THEN Printed("You have exceeded your budget", r)
                  ELSE Printed("You are within your budget", r)

\* a variant without the test for an empty mapping
export_report_always_writes(f, reps, month) ==
    IF ~f.exists THEN [out |-> Traceback(Raised("FileNotFoundError")), reports |-> reps]
    ELSE LET r == ExportLoop(FieldNames(f.text), DictReader(f.text), month, <<>>)
         IN  IF r.err # "ok" THEN [out |-> Traceback(r), reports |-> reps]
             ELSE [out |-> Printed("Report successfully saved", r),
                   reports |-> [reps EXCEPT ![month] =
                                   [exists |-> TRUE, title |-> month, lines |-> r.total]]]

export_report(f, reps, month) ==
    IF ~f.exists THEN [out |-> Traceback(Raised("FileNotFoundError")), reports |-> reps]
    ELSE LET r == ExportLoop(FieldNames(f.text), DictReader(f.text), month, <<>>)
         IN  IF r.err # "ok" THEN [out |-> Traceback(r), reports |-> reps]
             ELSE IF r.total = <<>>
                  THEN [out |-> Printed("No data available for this month", r),
                        reports |-> reps]
             ELSE [out |-> Printed("Report successfully saved", r),
                   reports |-> [reps EXCEPT ![month] =
                                   [exists |-> TRUE, title |-> month, lines |-> r.total]]]

(***************************************************************************)
(* What the user types, and what expenses.csv and the report files may     *)
(* hold before the program is first started.                               *)
(***************************************************************************)
D_JAN == <<"2","0","2","4","-","0","1","-","0","5">>
D_FEB == <<"2","0","2","4","-","0","2","-","0","1">>
M_JAN == <<"2","0","2","4","-","0","1">>
M_ANY == <<"2","0","2","4">>

Months == {M_JAN, M_ANY}

BudgetTexts == {<<"2">>, <<"x">>}

\* date, category, amount text, description
AddInputs ==
    { << <<>>, <<"F">>, <<"1">>, <<>>>>,
      <<D_JAN, <<"f">>, <<"2">>, <<"a", COMMA, QUOTE>>>>,
      <<D_FEB, <<"F">>, <<"2">>, <<"a", CR, "b">>>>,
      <<D_JAN, <<"F">>, <<"x">>, <<>>>>,
      <<D_JAN, <<>>, <<>>, <<>>>> }

InvalidChoices == {"8", ""}

Line(fields) == JoinFields(fields) \o <<LF>>

GoodRow == <<D_JAN, <<"F">>, <<"1">>, <<"x">>>>

\* absent; empty; a good row; a good row, the last line unterminated; the
\* description missing; the amount missing too; an extra field; an amount
\* that is no number
InitFiles ==
    { Absent,
      File(<<>>),
      File(Line(HeaderRow) \o Line(GoodRow)),
      File(Line(HeaderRow) \o JoinFields(GoodRow)),
      File(Line(HeaderRow) \o Line(SubSeq(GoodRow, 1, 3))),
      File(Line(HeaderRow) \o Line(SubSeq(GoodRow, 1, 2))),
      File(Line(HeaderRow) \o Line(GoodRow \o << <<"e">> >>)),
      File(Line(HeaderRow) \o Line(<<D_JAN, <<"F">>, <<"x">>, <<"x">>>>)) }

OldReport == [exists |-> TRUE, title |-> <<"o","l","d">>, lines |-> <<>>]

InitReports == { [m \in Months |-> IF m = M_JAN THEN OldReport ELSE NoReport] }

(***************************************************************************)
(* main(): initialize_file(), then the menu loop.                          *)
(***************************************************************************)
Init ==
    /\ file \in InitFiles
    /\ file0 = file
    /\ reports \in InitReports
    /\ pc = "start"
    /\ op = [choice |-> "main", in |-> <<>>]
    /\ out = Quiet
    /\ written = <<>>
    /\ restarted = FALSE

Startup ==
    /\ pc = "start"
    /\ file' = initialize_file(file)
    /\ pc' = "loop"
    /\ op' = [choice |-> "initialize_file", in |-> <<>>]
    /\ out' = Quiet
    /\ UNCHANGED <<reports, file0, written, restarted>>

\* the menu is printed and the choice is awaited
ShowMenu ==
    /\ pc = "loop"
    /\ pc' = "choose"
    /\ out' = Printed("Personal Expense Tracker", Done(<<>>))
    /\ op' = [choice |-> "input", in |-> <<>>]
    /\ UNCHANGED <<file, reports, file0, written, restarted>>

\* after an operation: back to the menu, unless an exception left main()
After(o) == IF o.err = "ok" THEN "loop" ELSE "crashed"

Choice1 ==
    /\ pc = "choose"
    /\ \E a \in AddInputs :
         LET r == add_expense(file, a[1], a[2], a[3], a[4])
         IN  /\ r.file # file => Len(written) < MaxAdds
             /\ file' = r.file
             /\ out' = r.out
             /\ op' = [choice |-> "1", in |-> r.in]
             /\ written' = IF r.file # file THEN Append(written, a) ELSE written
             /\ pc' = After(r.out)
    /\ UNCHANGED <<reports, file0, restarted>>

Choice2 ==
    /\ pc = "choose"
    /\ out' = analyze_expense(file)
    /\ op' = [choice |-> "2", in |-> <<>>]
    /\ pc' = After(out')
    /\ UNCHANGED <<file, reports, file0, written, restarted>>

Choice3 ==
    /\ pc = "choose"
    /\ out' = category_pie_chart(file)
    /\ op' = [choice |-> "3", in |-> <<>>]
    /\ pc' = After(out')
    /\ UNCHANGED <<file, reports, file0, written, restarted>>

Choice4 ==
    /\ pc = "choose"
    /\ out' = monthly_bar_chart(file)
    /\ op' = [choice |-> "4", in |-> <<>>]
    /\ pc' = After(out')
    /\ UNCHANGED <<file, reports, file0, written, restarted>>

Choice5 ==
    /\ pc = "choose"
    /\ \E month \in Months, budgetText \in BudgetTexts :
         /\ out' = budget_alert(file, month, budgetText)
         /\ op' = [choice |-> "5", in |-> <<month, budgetText>>]
    /\ pc' = After(out')
    /\ UNCHANGED <<file, reports, file0, written, restarted>>

Choice6 ==
    /\ pc = "choose"
    /\ \E month \in Months :
         LET r == export_report(file, reports, month)
         IN  /\ out' = r.out
             /\ reports' = r.reports
             /\ op' = [choice |-> "6", in |-> <<month>>]
    /\ pc' = After(out')
    /\ UNCHANGED <<file, file0, written, restarted>>

Choice7 ==
    /\ pc = "choose"
    /\ out' = Printed("Thank you for using the Expense Tracker", Done(<<>>))
    /\ op' = [choice |-> "7", in |-> <<>>]
    /\ pc' = "exited"
    /\ UNCHANGED <<file, reports, file0, written, restarted>>

InvalidChoice ==
    /\ pc = "choose"
    /\ \E choice \in InvalidChoices :
         op' = [choice |-> choice, in |-> <<>>]
    /\ out' = Printed("Invalid choice", Done(<<>>))
    /\ pc' = "loop"
    /\ UNCHANGED <<file, reports, file0, written, restarted>>

\* the program is started again after it ended
Relaunch ==
    /\ pc \in {"exited", "crashed"}
    /\ restarted' = TRUE
    /\ pc' = "start"
    /\ op' = [choice |-> "main", in |-> <<>>]
    /\ out' = Quiet
    /\ UNCHANGED <<file, reports, file0, written>>

Next ==
    \/ Startup
    \/ ShowMenu
    \/ Choice1
    \/ Choice2
    \/ Choice3
    \/ Choice4
    \/ Choice5
    \/ Choice6
    \/ Choice7
    \/ InvalidChoice
    \/ Relaunch

Spec == Init /\ [][Next]_vars

(***************************************************************************)
(* Notions the properties are stated with.  fn are the field names of the  *)
(* store and rows its data rows, as every operation reads them.            *)
(***************************************************************************)
Saved == "Expense saved successfully"

Fields(f) == FieldNames(f.text)

DataRows(f) == DictReader(f.text)

\* the row is a record: a date, a category and a numeric amount
IsRecord(fn, row) ==
    /\ Lookup(fn, row, DATE).kind = "str"
    /\ Lookup(fn, row, CATEGORY).kind = "str"
    /\ FloatError(Lookup(fn, row, AMOUNT)) = "ok"

Matches(fn, row, month) ==
    /\ Lookup(fn, row, DATE).kind = "str"
    /\ StartsWith(Lookup(fn, row, DATE).val, month)

\* the sum of the amounts of the rows whose index is in idx
RECURSIVE SumAt(_, _, _)
SumAt(fn, rows, idx) ==
    IF idx = {} THEN 0
    ELSE LET i == CHOOSE k \in idx : TRUE
         IN  ParseFloat(Lookup(fn, rows[i], AMOUNT).val) + SumAt(fn, rows, idx \ {i})

RECURSIVE SumTotals(_)
SumTotals(d) == IF d = <<>> THEN 0 ELSE d[1][2] + SumTotals(Tail(d))

\* the header first, then four-field rows
StoreFormat(f) ==
    /\ f.exists
    /\ LET all == CsvReader(f.text)
       IN  /\ all # <<>>
           /\ all[1] = HeaderRow
           /\ \A i \in 2..Len(all) : all[i] = <<>> \/ Len(all[i]) = Len(HeaderRow)

HeaderLines(f) ==
    LET all == CsvReader(f.text)
    IN  Cardinality({i \in 1..Len(all) : all[i] = HeaderRow})

(***************************************************************************)
(* C1: when the amount text of the add operation, or the budget text of    *)
(* the budget check, does not convert to a number, the operation prints    *)
(* its error and returns to the menu: expenses.csv and the report files    *)
(* are unchanged, whatever date and category were entered, and no budget   *)
(* verdict is printed.                                                     *)
(***************************************************************************)
C1_NonNumericAborts ==
    [][ /\ (pc = "choose" /\ op'.choice = "1" /\ ~IsNumeric(op'.in[3]))
            => /\ file' = file
               /\ reports' = reports
               /\ pc' = "loop"
               /\ out'.msg = "Amount must be a number"
        /\ (pc = "choose" /\ op'.choice = "5" /\ ~IsNumeric(op'.in[2]))
            => /\ file' = file
               /\ reports' = reports
               /\ pc' = "loop"
               /\ out'.msg = "Budget must be a number"
      ]_vars

C1_Witness ==
    /\ pc = "loop"
    /\ op.choice = "1"
    /\ ~IsNumeric(op.in[3])
    /\ op.in[1] = D_JAN
    /\ out.msg = "Amount must be a number"
    /\ Len(written) = 1

(***************************************************************************)
(* C2: after startup the store is append-only.  A successful add appends   *)
(* exactly one data row at the end and leaves the earlier rows as they     *)
(* were; every other choice leaves expenses.csv unchanged.  Stated for a   *)
(* store that holds the header and four-field rows.                        *)
(***************************************************************************)
C2_AppendOnly ==
    [][ (pc = "choose" /\ StoreFormat(file)) =>
          IF op'.choice = "1" /\ out'.msg = Saved
          THEN LET before == DataRows(file)
                   after  == DataRows(file')
               IN  /\ Len(after) = Len(before) + 1
                   /\ SubSeq(after, 1, Len(before)) = before
          ELSE file' = file
      ]_vars

(***************************************************************************)
(* C3: once initialize_file() has run, the first row of the store is the   *)
(* header date,category,amount,description and every following row has     *)
(* four fields, whatever expenses.csv held before startup.                 *)
(***************************************************************************)
C3_StoreFormat == pc # "start" => StoreFormat(file)

\* C3 as amended: the same, when expenses.csv was absent before the first
\* startup.
C3_StoreFormatFromAbsent ==
    (pc # "start" /\ ~file0.exists) => StoreFormat(file)

C3_Witness ==
    /\ pc = "loop"
    /\ ~file0.exists
    /\ restarted
    /\ Len(written) = 2
    /\ \E i \in 1..2 : written[i][4] = <<"a", CR, "b">>
    /\ \E i \in 1..2 : written[i][4] = <<"a", COMMA, QUOTE>>
    /\ StoreFormat(file)

(***************************************************************************)
(* C4: initialize_file() is idempotent.  It leaves an existing file as it  *)
(* is and writes the header alone to an absent one; so after the second    *)
(* startup of a store the program created, with adds before, between or    *)
(* after the two calls, the file has exactly one header line and one data  *)
(* row for each row added.                                                 *)
(***************************************************************************)
C4_InitializeIdempotent ==
    /\ [][ pc = "start" =>
             /\ file.exists => file' = file
             /\ ~file.exists => file' = File(WriteRow(HeaderRow))
         ]_vars
    /\ []( (restarted /\ pc # "start" /\ ~file0.exists) =>
             /\ HeaderLines(file) = 1
             /\ Len(DataRows(file)) = Len(written) )

C4_Witness ==
    /\ restarted
    /\ pc = "loop"
    /\ op.choice = "initialize_file"
    /\ ~file0.exists
    /\ Len(written) = 2
    /\ HeaderLines(file) = 1

(***************************************************************************)
(* C5: round trip.  After a successful add, reading all records yields as  *)
(* the last record one equal to the record added: date, category and       *)
(* description as text, the amount as a number.  Stated for a store the    *)
(* program created itself.                                                 *)
(***************************************************************************)
C5_RoundTrip ==
    (pc = "loop" /\ op.choice = "1" /\ out.msg = Saved /\ ~file0.exists) =>
        LET fn   == Fields(file)
            rows == DataRows(file)
            last == rows[Len(rows)]
        IN  /\ rows # <<>>
            /\ Lookup(fn, last, DATE) = Str(op.in[1])
            /\ Lookup(fn, last, CATEGORY) = Str(op.in[2])
            /\ FloatError(Lookup(fn, last, AMOUNT)) = "ok"
            /\ ParseFloat(Lookup(fn, last, AMOUNT).val) = ParseFloat(op.in[3])
            /\ Lookup(fn, last, DESCRIPTION) = Str(op.in[4])

(***************************************************************************)
(* C6: the category aggregation of analyze_expense and category_pie_chart, *)
(* over a store of records, returns a mapping whose keys are exactly the   *)
(* distinct category strings (case-sensitive), each once, each mapped to   *)
(* the sum of the amounts of the records of that category; the totals add  *)
(* up to the sum of all amounts, and no records give the empty mapping.    *)
(***************************************************************************)
C6_CategoryTotals ==
    (op.choice \in {"2", "3"}) =>
        LET fn   == Fields(file)
            rows == DataRows(file)
            cats == {Lookup(fn, rows[i], CATEGORY) : i \in 1..Len(rows)}
            d    == out.total
        IN  (\A i \in 1..Len(rows) : IsRecord(fn, rows[i])) =>
              /\ out.err = "ok"
              /\ {d[k][1] : k \in 1..Len(d)} = cats
              /\ Len(d) = Cardinality(cats)
              /\ \A k \in 1..Len(d) :
                   d[k][2] = SumAt(fn, rows, {i \in 1..Len(rows) :
                                       Lookup(fn, rows[i], CATEGORY) = d[k][1]})
              /\ SumTotals(d) = SumAt(fn, rows, 1..Len(rows))
              /\ rows = <<>> => d = <<>>

C6_Witness ==
    /\ op.choice = "2"
    /\ Len(DataRows(file)) = 3
    /\ out.total = << <<Str(<<"F">>), 3>>, <<Str(<<"f">>), 2>> >>

(***************************************************************************)
(* C7: for a numeric budget, the budget check prints "exceeded" exactly    *)
(* when the sum of the amounts of the records whose date starts with the   *)
(* month is strictly greater than the budget, and "within budget"          *)
(* otherwise: a total equal to the budget is within it, a total one above  *)
(* it exceeds it.                                                          *)
(***************************************************************************)
C7_BudgetVerdict ==
    (op.choice = "5" /\ IsNumeric(op.in[2])) =>
        LET fn     == Fields(file)
            rows   == DataRows(file)
            month  == op.in[1]
            budget == ParseFloat(op.in[2])
            total  == SumAt(fn, rows, {i \in 1..Len(rows) : Matches(fn, rows[i], month)})
        IN  (\A i \in 1..Len(rows) :
                /\ Lookup(fn, rows[i], DATE).kind = "str"
                /\ Matches(fn, rows[i], month)
                     => FloatError(Lookup(fn, rows[i], AMOUNT)) = "ok") =>
              /\ out.err = "ok"
              /\ out.spent = total
              /\ out.msg = IF total > budget THEN "You have exceeded your budget"
                                             ELSE "You are within your budget"

C7_Witness ==
    /\ op.choice = "5"
    /\ op.in[1] = M_JAN
    /\ IsNumeric(op.in[2])
    /\ out.spent = ParseFloat(op.in[2]) + 1
    /\ out.msg = "You have exceeded your budget"
    /\ Len(DataRows(file)) = 3

(***************************************************************************)
(* C8: over a store of records, export_report writes                       *)
(* expense_report_<month>.txt exactly when some record has a date starting *)
(* with the month entered; when none has, it prints "no data", creates no  *)
(* file and leaves an existing report of that name as it was.  No other    *)
(* report file is touched.                                                 *)
(***************************************************************************)
C8_ExportOnlyWithData ==
    [][ (pc = "choose" /\ op'.choice = "6") =>
          LET fn    == Fields(file)
              rows  == DataRows(file)
              month == op'.in[1]
              some  == \E i \in 1..Len(rows) : Matches(fn, rows[i], month)
          IN  (\A i \in 1..Len(rows) : IsRecord(fn, rows[i])) =>
                /\ \A m \in Months \ {month} : reports'[m] = reports[m]
                /\ some => /\ out'.msg = "Report successfully saved"
                           /\ reports'[month].exists
                           /\ reports'[month].title = month
                           /\ reports'[month].lines = out'.total
                           /\ out'.total # <<>>
                /\ ~some => /\ out'.msg = "No data available for this month"
                            /\ reports'[month] = reports[month]
      ]_vars

C8_Witness ==
    /\ op.choice = "6"
    /\ op.in[1] = M_JAN
    /\ out.msg = "No data available for this month"
    /\ reports[M_JAN] = OldReport
    /\ ~reports[M_ANY].exists
    /\ Len(DataRows(file)) = 1

(***************************************************************************)
(* C9: after startup the menu loop ends only on choice 7: every other      *)
(* choice, an operation that fails included, returns to the menu.          *)
(***************************************************************************)
C9_LoopEndsOnlyOnExit ==
    [][ (pc = "choose" /\ pc' # "loop") => op'.choice = "7" ]_vars

(***************************************************************************)
(* C10: an operation that reads the store fails when some data row has     *)
(* fewer fields than the four of the header, whichever are missing, so a   *)
(* short row is never used in an aggregation; a row with extra trailing    *)
(* fields does not make it fail.                                           *)
(***************************************************************************)
C10_ShortRowFails ==
    (pc \in {"loop", "crashed"} /\ op.choice \in {"2", "3", "4"}) =>
        LET fn   == Fields(file)
            rows == DataRows(file)
        IN  fn = HeaderRow =>
              /\ (\E i \in 1..Len(rows) : Len(rows[i]) < Len(HeaderRow))
                    => out.err # "ok"
              /\ (\A i \in 1..Len(rows) :
                      Len(rows[i]) >= Len(HeaderRow) /\ IsRecord(fn, rows[i]))
                    => out.err = "ok"

====
